---- MODULE Spec2Model ----
(***************************************************************************)
(* The lambda-F risk dashboard (src/lambda_f_dashboard.py): one Streamlit  *)
(* script that, on every run, fetches the latest records through a cached  *)
(* function, normalises them with pandas and renders metrics, a chart and  *)
(* a table.  A "Refresh Data" button clears the cache and reruns.          *)
(*                                                                         *)
(* Numbers: lambda_F and contributions are counted in thousandths (the     *)
(* dashboard prints them with "{:.3f}"), component scores in whole points  *)
(* of [0,100], time in the seconds of the cache's ttl.                     *)
(***************************************************************************)
EXTENDS Integers, Sequences, FiniteSets, TLC

VARIABLES
    storeUp,        \* the Firestore collection answers queries (TRUE) or the query raises
    cache,          \* the st.cache_data entry of fetch_lambda_f_data
    pc,             \* "idle": waiting for an interaction; "rerun": st.rerun() was requested
    docs,           \* the raw documents streamed by the last store query
    queried,        \* the last script run executed the body of fetch_lambda_f_data
    servedAge,      \* age of the fetch result the last script run displayed
    out,            \* what the last script run put on the page
    runParity,      \* flips at every script run
    contributions   \* the weighted breakdown of the explained variant

vars == <<storeUp, cache, pc, docs, queried, servedAge, out, runParity, contributions>>

-----------------------------------------------------------------------------
(* Bounds of the model *)

\* longest document stream a query returns in the model
MaxDocs == 2

\* oldest cache entry the model's clock is followed to
MaxAge == 601

\* the steps the clock advances in (around the ttl: 599 < 600 = 300 + 300)
TickSteps == {300, 599}

-----------------------------------------------------------------------------
(* Program constants *)

\* @st.cache_data(ttl=600)
TTL == 600

\* .limit(30)
QueryLimit == 30

\* the db handle created at module level
db == "db"

-----------------------------------------------------------------------------
(* Values *)

None == [k |-> "none", v |-> 0]

Num(n) == [k |-> "num", v |-> n]

\* a timestamp field as stored: a datetime value, an ISO string, or a string
\* that is no date
Dt(n) == [k |-> "datetime", v |-> n]

Iso(n) == [k |-> "isostring", v |-> n]

Junk == [k |-> "junkstring", v |-> 0]

\* a status key that the document does not have
Absent == "<absent>"

Components == {"fearAndGreed", "redditHype", "volumeSpike"}

NoScores == [c \in {} |-> 0]

RawDoc(ts, lam, st, sc) ==
    [timestamp |-> ts, lambda_F |-> lam, status |-> st, source_scores |-> sc]

\* the documents the upstream producer may have written
RawRecords ==
    { RawDoc(Dt(2), Num(500), "Riskli",
             [fearAndGreed |-> 80, redditHype |-> 70, volumeSpike |-> 65]),
      RawDoc(Iso(2), Num(900), Absent,
             [fearAndGreed |-> 100, redditHype |-> 100, volumeSpike |-> 100]),
      RawDoc(Dt(3), Num(700), "Critical", [c \in {"fearAndGreed"} |-> 60]),
      RawDoc(None, Num(300), "Normal", NoScores),
      RawDoc(Junk, Num(500), "Risky", NoScores),
      RawDoc(Junk, None, Absent, NoScores) }

SeqsUpTo(S, n) == UNION { [1..m -> S] : m \in 0..n }

\* what a query can stream: any documents, in whatever order the store gives
DocStreams == SeqsUpTo(RawRecords, MaxDocs)

Min(a, b) == IF a <= b THEN a ELSE b

-----------------------------------------------------------------------------
(* fetch_lambda_f_data: the body *)

\* .limit(30).stream()
Stream(collection) == SubSeq(collection, 1, Min(Len(collection), QueryLimit))

\* doc_data.get("timestamp"), .get("lambda_F"), .get("status", "N/A")
Project(doc) ==
    [timestamp |-> doc.timestamp,
     lambda_F  |-> doc.lambda_F,
     status    |-> IF doc.status = Absent THEN "N/A" ELSE doc.status]

IsNa(x) == x.k = "none"

\* df.dropna(subset=['timestamp', 'lambda_F'])
DropNa(data) ==
    SelectSeq(data, LAMBDA row : ~IsNa(row.timestamp) /\ ~IsNa(row.lambda_F))

ParseError == [k |-> "error", v |-> 0]

\* pd.to_datetime on one value: datetimes pass, ISO strings are parsed,
\* anything else raises
ToDatetimeValue(x) ==
    CASE x.k = "datetime"  -> [k |-> "instant", v |-> x.v]
      [] x.k = "isostring" -> [k |-> "instant", v |-> x.v]
      [] OTHER             -> ParseError

\* pd.to_datetime(df["timestamp"]) raises when any value fails to parse
ToDatetimeRaises(df) ==
    \E i \in 1..Len(df) : ToDatetimeValue(df[i].timestamp) = ParseError

\* df["timestamp"] = pd.to_datetime(df["timestamp"])
ToDatetime(df) ==
    [i \in 1..Len(df) |->
        [df[i] EXCEPT !.timestamp = ToDatetimeValue(df[i].timestamp).v]]

RECURSIVE InsertByTimestamp(_, _)
InsertByTimestamp(sorted, row) ==
    IF sorted = <<>> THEN <<row>>
    ELSE IF Head(sorted).timestamp <= row.timestamp
         THEN <<Head(sorted)>> \o InsertByTimestamp(Tail(sorted), row)
         ELSE <<row>> \o sorted

\* the sort left out: rows stay in fetch order
KeepFetchOrder(df) == df

RECURSIVE SortAscending(_)
SortAscending(df) ==
    IF df = <<>> THEN <<>>
    ELSE InsertByTimestamp(SortAscending(SubSeq(df, 1, Len(df) - 1)), df[Len(df)])

\* the orders rows of equal timestamp may come out in (the default sort kind
\* of sort_values is not stable)
TieOrders(df) ==
    LET n == Len(df)
        perms == { p \in [1..n -> 1..n] : \A i, j \in 1..n : i # j => p[i] # p[j] }
    IN  { [i \in 1..n |-> df[p[i]]] :
            p \in { q \in perms : \A i \in 1..n : df[q[i]].timestamp = df[i].timestamp } }

\* df.sort_values(by="timestamp", ascending=True).reset_index(drop=True)
SortValues(df) == TieOrders(SortAscending(df))

EmptyFrame == <<>>

Result(df, err, exc) == [df |-> df, error |-> err, raised |-> exc]

\* the handler letting the exception through
OnExceptionReraises == Result(EmptyFrame, FALSE, TRUE)

\* except Exception as e: st.error(...); return pd.DataFrame()
OnException == Result(EmptyFrame, TRUE, FALSE)

\* the results the function body can return for a store that is up or down
\* and holds `collection`
fetch_lambda_f_data(_db_client, up, collection) ==
    IF _db_client = "None" THEN { Result(EmptyFrame, FALSE, FALSE) }
    ELSE IF ~up THEN { OnException }
    ELSE LET data == [i \in 1..Len(Stream(collection)) |-> Project(Stream(collection)[i])]
             kept == DropNa(data)
         IN  IF data = <<>> THEN { Result(EmptyFrame, FALSE, FALSE) }
             ELSE IF ToDatetimeRaises(kept) THEN { OnException }
             ELSE { Result(df, FALSE, FALSE) : df \in SortValues(ToDatetime(kept)) }

-----------------------------------------------------------------------------
(* @st.cache_data(ttl=600) and st.cache_data.clear() *)

NoEntry == [present |-> FALSE, value |-> Result(EmptyFrame, FALSE, FALSE), age |-> 0]

\* an entry is served while it is younger than the ttl
CacheHit(c) == c.present /\ c.age < TTL

\* only successful results stored
CacheStoreSkipsFailures(r) ==
    IF r.error THEN NoEntry ELSE [present |-> TRUE, value |-> r, age |-> 0]

\* the returned value is stored, whatever it is, together with the st.error
\* element the body emitted, which is replayed on a hit
CacheStore(r) == [present |-> TRUE, value |-> r, age |-> 0]

\* a clear that leaves the entry in place
CacheClearKeepsEntry(c) == c

\* st.cache_data.clear()
CacheClear(c) == NoEntry

\* what the collection may hold when it is queried; a store that is down
\* streams nothing
Collections(up) == IF up THEN DocStreams ELSE { <<>> }

\* fetch_lambda_f_data(db) as the script calls it, through the cache: the
\* key ignores the underscore argument, so there is one entry.  An exception
\* leaving the body is not stored.
CachedFetch(c, up, lastDocs) ==
    IF CacheHit(c)
    THEN { [r |-> c.value, cache |-> c, queried |-> FALSE, age |-> c.age,
            docs |-> lastDocs] }
    ELSE UNION { { [r |-> r,
                    cache |-> IF r.raised THEN NoEntry ELSE CacheStore(r),
                    queried |-> TRUE, age |-> 0,
                    docs |-> IF up THEN Stream(collection) ELSE <<>>] :
                      r \in fetch_lambda_f_data(db, up, collection) } :
                 collection \in Collections(up) }

-----------------------------------------------------------------------------
(* The page: main metrics, chart, table *)

\* if status_current == "Kritik" or ... "Critical": st.error ... elif ... else
StatusDisplay(status_current) ==
    IF status_current = "Kritik" \/ status_current = "Critical" THEN "Critical"
    ELSE IF status_current = "Riskli" \/ status_current = "Risky" THEN "Risky"
    ELSE "Normal"

\* the metrics block without its empty branch: an empty frame shown as Normal
MainMetricsDefaultsToNormal(df_history) ==
    IF df_history # EmptyFrame
    THEN LET latest_data == df_history[Len(df_history)]
             lambda_f_previous ==
                 IF Len(df_history) > 1
                 THEN df_history[Len(df_history) - 1].lambda_F.v
                 ELSE 0
         IN  [banner |-> "metrics", value |-> Num(latest_data.lambda_F.v),
              delta |-> Num(latest_data.lambda_F.v - lambda_f_previous),
              tier |-> StatusDisplay(latest_data.status)]
    ELSE [banner |-> "metrics", value |-> Num(0), delta |-> Num(0), tier |-> "Normal"]

\* the main metrics block
MainMetrics(df_history) ==
    IF df_history # EmptyFrame
    THEN LET latest_data == df_history[Len(df_history)]
             lambda_f_current == latest_data.lambda_F.v
             status_current == latest_data.status
             lambda_f_previous ==
                 IF Len(df_history) > 1
                 THEN df_history[Len(df_history) - 1].lambda_F.v
                 ELSE 0
             delta == lambda_f_current - lambda_f_previous
         IN  [banner |-> "metrics", value |-> Num(lambda_f_current),
              delta |-> Num(delta), tier |-> StatusDisplay(status_current)]
    ELSE [banner |-> "nodata", value |-> None, delta |-> None, tier |-> "none"]

\* create_time_series_chart: None for an empty frame, else a figure
create_time_series_chart(df) == df # EmptyFrame

\* one run of the script from the title to the sidebar, given the fetch result
Page(r) ==
    IF r.raised
    THEN [crashed |-> TRUE, fetchError |-> FALSE, df |-> EmptyFrame,
          metrics |-> [banner |-> "blank", value |-> None, delta |-> None,
                       tier |-> "none"],
          chart |-> FALSE, table |-> FALSE]
    ELSE [crashed |-> FALSE, fetchError |-> r.error, df |-> r.df,
          metrics |-> MainMetrics(r.df),
          chart |-> create_time_series_chart(r.df),
          table |-> r.df # EmptyFrame]

BlankPage ==
    [crashed |-> FALSE, fetchError |-> FALSE, df |-> EmptyFrame,
     metrics |-> [banner |-> "blank", value |-> None, delta |-> None, tier |-> "none"],
     chart |-> FALSE, table |-> FALSE]

-----------------------------------------------------------------------------
(* The dashboard session *)

Init ==
    /\ storeUp \in BOOLEAN
    /\ cache = NoEntry
    /\ pc = "idle"
    /\ docs = <<>>
    /\ queried = FALSE
    /\ servedAge = 0
    /\ out = BlankPage
    /\ runParity = 0
    /\ contributions = <<>>

\* the script body shared by every run
ScriptRun(run) ==
    /\ docs' = run.docs
    /\ queried' = run.queried
    /\ servedAge' = run.age
    /\ out' = Page(run.r)
    /\ runParity' = 1 - runParity
    /\ UNCHANGED <<storeUp, contributions>>

\* a page load or a widget interaction other than the button: the script
\* runs and the button reads False
Render ==
    /\ pc = "idle"
    /\ \E run \in CachedFetch(cache, storeUp, docs) :
         /\ ScriptRun(run)
         /\ cache' = run.cache
         /\ pc' = "idle"

\* a click on "Refresh Data": the script runs, the button reads True, the
\* cache is cleared and a rerun is requested
RefreshClick ==
    /\ pc = "idle"
    /\ \E run \in CachedFetch(cache, storeUp, docs) :
         /\ ScriptRun(run)
         /\ IF run.r.raised
            THEN cache' = run.cache /\ pc' = "idle"
            ELSE cache' = CacheClear(run.cache) /\ pc' = "rerun"

\* the run that st.rerun() starts
Rerun ==
    /\ pc = "rerun"
    /\ \E run \in CachedFetch(cache, storeUp, docs) :
         /\ ScriptRun(run)
         /\ cache' = run.cache
         /\ pc' = "idle"

\* time passes for the cache entry
Tick ==
    /\ cache.present
    /\ \E d \in TickSteps :
         /\ cache.age + d <= MaxAge
         /\ cache' = [cache EXCEPT !.age = cache.age + d]
    /\ UNCHANGED <<storeUp, pc, docs, queried, servedAge, out, runParity, contributions>>

\* the store becomes unreachable
StoreFail ==
    /\ storeUp
    /\ storeUp' = FALSE
    /\ UNCHANGED <<cache, pc, docs, queried, servedAge, out, runParity, contributions>>

\* the store becomes reachable again
StoreRecover ==
    /\ ~storeUp
    /\ storeUp' = TRUE
    /\ UNCHANGED <<cache, pc, docs, queried, servedAge, out, runParity, contributions>>

Next ==
    \/ Render
    \/ RefreshClick
    \/ Rerun
    \/ Tick
    \/ StoreFail
    \/ StoreRecover

Spec == Init /\ [][Next]_vars

-----------------------------------------------------------------------------
(* The explained variant: weighted breakdown of the component scores *)

WeightFearAndGreed == 400

WeightRedditHype == 300

WeightVolumeSpike == 300

Weight(c) ==
    CASE c = "fearAndGreed" -> WeightFearAndGreed
      [] c = "redditHype"   -> WeightRedditHype
      [] c = "volumeSpike"  -> WeightVolumeSpike

\* an absent component charted at the neutral score 50
ContributionAbsentAsNeutral(scores, c) ==
    IF c \in DOMAIN scores THEN (scores[c] * Weight(c)) \div 100 ELSE (50 * Weight(c)) \div 100

\* (component / 100) * weight; an absent component is charted as 0
Contribution(scores, c) ==
    IF c \in DOMAIN scores THEN (scores[c] * Weight(c)) \div 100 ELSE 0

\* the projection of the explained variant keeps the component scores
ProjectWithScores(doc) ==
    [timestamp |-> doc.timestamp,
     lambda_F  |-> doc.lambda_F,
     status    |-> IF doc.status = Absent THEN "N/A" ELSE doc.status,
     source_scores |-> doc.source_scores]

\* the series of the explained variant: same normalisation, scores kept
ExplainedSeries(up, collection) ==
    LET data == [i \in 1..Len(Stream(collection)) |->
                    ProjectWithScores(Stream(collection)[i])]
        kept == DropNa(data)
    IN  IF ~up \/ data = <<>> \/ ToDatetimeRaises(kept) THEN { EmptyFrame }
        ELSE SortValues(ToDatetime(kept))

\* the three weighted fractions plus the original composite value
WeightedBreakdown(sample) ==
    [fearAndGreed |-> Contribution(sample.source_scores, "fearAndGreed"),
     redditHype   |-> Contribution(sample.source_scores, "redditHype"),
     volumeSpike  |-> Contribution(sample.source_scores, "volumeSpike"),
     lambda_F     |-> sample.lambda_F.v]

ContributionSets(series) == [i \in 1..Len(series) |-> WeightedBreakdown(series[i])]

InitBreakdown ==
    /\ storeUp \in BOOLEAN
    /\ cache = NoEntry
    /\ pc = "fetching"
    /\ docs \in DocStreams
    /\ queried = FALSE
    /\ servedAge = 0
    /\ out = BlankPage
    /\ runParity = 0
    /\ contributions = <<>>

\* one cycle of the explained variant: normalise, then break every sample down
ChartBreakdown ==
    /\ pc = "fetching"
    /\ \E series \in ExplainedSeries(storeUp, docs) :
         /\ out' = [BlankPage EXCEPT !.df = series]
         /\ contributions' = ContributionSets(series)
    /\ pc' = "charted"
    /\ queried' = TRUE
    /\ UNCHANGED <<storeUp, cache, docs, servedAge, runParity>>

NextBreakdown == ChartBreakdown

SpecBreakdown == InitBreakdown /\ [][NextBreakdown]_vars

-----------------------------------------------------------------------------
(* Properties *)

\* a script run happened in this step
ScriptRan == runParity' # runParity

Last(s) == s[Len(s)]

TimestampsAscending(df) ==
    \A i \in 1..(Len(df) - 1) : df[i].timestamp <= df[i + 1].timestamp

\* the instant a stored timestamp denotes, for the stored values that denote one
Parseable(ts) == ts.k \in {"datetime", "isostring"}

\* a document with both required fields present and the timestamp parseable
WellFormed(doc) == Parseable(doc.timestamp) /\ doc.lambda_F.k = "num"

\* the sample a well-formed document denotes
SampleOf(doc) ==
    [timestamp |-> doc.timestamp.v, lambda_F |-> doc.lambda_F,
     status |-> IF doc.status = Absent THEN "N/A" ELSE doc.status]

Count(s, x) == Cardinality({ i \in DOMAIN s : s[i] = x })

\* C1: the series a fetch returns is sorted ascending by timestamp: adjacent
\* samples are in non-decreasing order and the last sample is the most recent.
C1_SortedAscending ==
    /\ TimestampsAscending(out.df)
    /\ \A i \in DOMAIN out.df : out.df[i].timestamp <= Last(out.df).timestamp

\* a fetch whose documents came newest first produced a two-sample series
C1_Witness ==
    /\ queried
    /\ Len(docs) >= 2
    /\ WellFormed(docs[1]) /\ WellFormed(docs[2])
    /\ docs[1].timestamp.v > docs[2].timestamp.v
    /\ Len(out.df) >= 2
    /\ out.df[1].timestamp < out.df[2].timestamp

\* C2: documents missing timestamp or lambda_F are excluded, every document
\* with both fields present and parseable is retained, and the series is no
\* longer than the documents fetched.
C2_ExactlyWellFormedRetained ==
    /\ Len(out.df) <= Len(docs)
    /\ \A i \in DOMAIN docs :
         WellFormed(docs[i]) =>
            Count(out.df, SampleOf(docs[i])) =
               Cardinality({ j \in DOMAIN docs :
                               WellFormed(docs[j]) /\ SampleOf(docs[j]) = SampleOf(docs[i]) })
    /\ Len(out.df) = Cardinality({ i \in DOMAIN docs : WellFormed(docs[i]) })

\* C3: an error raised by the store during a fetch never leaves the fetch: the
\* run completes, with an empty series, the warning and the no-data display.
C3_StoreErrorContained ==
    /\ [](~out.crashed)
    /\ [][ScriptRan /\ ~storeUp /\ queried' =>
            /\ ~out'.crashed
            /\ out'.df = EmptyFrame
            /\ out'.fetchError
            /\ out'.metrics.banner = "nodata"]_vars

\* a run queried the unreachable store and showed the warning and no data
C3_Witness ==
    /\ queried
    /\ ~storeUp
    /\ docs = <<>>
    /\ out.fetchError
    /\ out.metrics.banner = "nodata"
    /\ ~out.crashed

\* C4: the run that follows a refresh queries the store; a run that finds an
\* entry younger than the ttl, with no refresh since it was stored, shows
\* that entry without querying; no run shows a result as old as the ttl.
C4_CacheTtlAndRefresh ==
    [][ScriptRan =>
          /\ (pc = "rerun" => queried' /\ servedAge' = 0)
          /\ (cache.present /\ cache.age < TTL =>
                 /\ ~queried'
                 /\ out'.df = cache.value.df
                 /\ servedAge' = cache.age
                 /\ docs' = docs)
          /\ (cache.present /\ cache.age >= TTL => queried')
          /\ servedAge' < TTL]_vars

\* a run was served an entry one second younger than the ttl
C4_Witness ==
    /\ ~queried
    /\ servedAge = TTL - 1
    /\ out.df # EmptyFrame

\* C5: delta is the latest lambda_F minus the one before when there are two
\* samples or more, and 0 when there is exactly one.
C5_DeltaZeroForSingleSample ==
    out.metrics.banner = "metrics" =>
       out.metrics.delta =
          Num(IF Len(out.df) >= 2
              THEN Last(out.df).lambda_F.v - out.df[Len(out.df) - 1].lambda_F.v
              ELSE 0)

\* the chart's threshold lines
CriticalLevel == 700

RiskLevel == 500

Classify(v) ==
    IF v > CriticalLevel THEN "Critical"
    ELSE IF v > RiskLevel THEN "Risky"
    ELSE "Normal"

\* C6: the tier shown is the numeric classification of the latest lambda_F,
\* whatever the stored status string says.
C6_TierFromLatestValue ==
    out.metrics.banner = "metrics" =>
       out.metrics.tier = Classify(Last(out.df).lambda_F.v)

\* C7: a run over an empty series reports no data, shows no tier and no delta,
\* and does not raise.
C7_EmptySeriesReportsNoData ==
    (out # BlankPage /\ out.df = EmptyFrame) =>
       /\ ~out.crashed
       /\ out.metrics.banner = "nodata"
       /\ out.metrics.tier = "none"
       /\ out.metrics.delta = None
       /\ out.metrics.value = None
       /\ ~out.chart

\* documents were fetched and all of them discarded
C7_Witness ==
    /\ queried
    /\ docs # <<>>
    /\ ~out.fetchError
    /\ out.df = EmptyFrame
    /\ out.metrics.banner = "nodata"

\* C8: an unparseable timestamp discards its own record only: every
\* well-formed document of the same fetch is still in the series.
C8_MalformedDiscardedAlone ==
    (\E i \in DOMAIN docs : docs[i].timestamp.k = "junkstring") =>
       \A j \in DOMAIN docs :
          WellFormed(docs[j]) => \E n \in DOMAIN out.df : out.df[n] = SampleOf(docs[j])

\* C9: every sample has a breakdown, in series order, of (component / 100) *
\* weight per component, 0 for an absent one, whatever the stored lambda_F.
C9_WeightedBreakdown ==
    pc = "charted" =>
       /\ Len(contributions) = Len(out.df)
       /\ \A i \in DOMAIN out.df :
            LET sc == out.df[i].source_scores
                b == contributions[i]
            IN  /\ b.lambda_F = out.df[i].lambda_F.v
                /\ IF "fearAndGreed" \in DOMAIN sc
                   THEN b.fearAndGreed * 100 = sc.fearAndGreed * 400
                   ELSE b.fearAndGreed = 0
                /\ IF "redditHype" \in DOMAIN sc
                   THEN b.redditHype * 100 = sc.redditHype * 300
                   ELSE b.redditHype = 0
                /\ IF "volumeSpike" \in DOMAIN sc
                   THEN b.volumeSpike * 100 = sc.volumeSpike * 300
                   ELSE b.volumeSpike = 0
                /\ (\A c \in Components : c \in DOMAIN sc /\ sc[c] = 100) =>
                      b.fearAndGreed + b.redditHype + b.volumeSpike = 1000
                /\ sc = [fearAndGreed |-> 80, redditHype |-> 70, volumeSpike |-> 65] =>
                      <<b.fearAndGreed, b.redditHype, b.volumeSpike>> = <<320, 210, 195>>

\* a sample with every component at 100 and a stored lambda_F of 0.9 was
\* broken down next to one with components absent
C9_Witness ==
    /\ pc = "charted"
    /\ Len(contributions) = 2
    /\ \E i, j \in 1..2 :
         /\ contributions[i].lambda_F = 900
         /\ contributions[i].fearAndGreed + contributions[i].redditHype
               + contributions[i].volumeSpike = 1000
         /\ DOMAIN out.df[j].source_scores # Components
         /\ contributions[j].redditHype = 0

\* C10: the empty series of a failed fetch is cached like any result: until
\* the ttl passes or a refresh clears it, runs are served it without a query
\* even when the store is reachable again.
C10_FailedFetchCached ==
    [][ScriptRan =>
          /\ (queried' /\ out'.fetchError /\ pc' = "idle" =>
                 /\ cache'.present
                 /\ cache'.value.error
                 /\ cache'.value.df = EmptyFrame
                 /\ cache'.age = 0)
          /\ (cache.present /\ cache.value.error /\ cache.age < TTL /\ storeUp =>
                 /\ ~queried'
                 /\ out'.df = EmptyFrame
                 /\ out'.fetchError
                 /\ out'.metrics.banner = "nodata"
                 /\ cache' = IF pc' = "rerun" THEN NoEntry ELSE cache)]_vars

\* the store is reachable again and a run still showed the cached failure
C10_Witness ==
    /\ storeUp
    /\ ~queried
    /\ servedAge > 0
    /\ docs = <<>>
    /\ out.fetchError
    /\ out.df = EmptyFrame

====
